---- MODULE Spec2Model ----
(***************************************************************************)
(* Model of `xsv split` (src/cmd/split.rs): run, sequential_split,        *)
(* parallel_split, new_writer.                                             *)
(*                                                                         *)
(* A record is modelled by its field content (a string); the input is the  *)
(* sequence of data records that byte_records() yields.  An output file    *)
(* is the sequence of rows handed to its writer, plus whether a handle on  *)
(* it is still open and whether flush() has succeeded on it.               *)
(***************************************************************************)
EXTENDS Integers, Sequences, FiniteSets, TLC

\* ---------------------------------------------------------------- bounds
MaxRows == 3
MaxSize == 2
MaxJobs == 2
MaxFaults == 1

\* ------------------------------------------------------------ input data
HeaderRow == "h"
Vals == {"h", "a"}
NoRow == "none"
Inputs == UNION {[1..n -> Vals] : n \in 0..MaxRows}

VARIABLES
    args,        \* Args: flag_size, flag_jobs, flag_no_headers
    input,       \* data records of the source, in order
    hasIndex,    \* whether rconfig().indexed() finds an index
    pc,          \* position of the main thread
    result,      \* what run returned: "none" while running
    dirCreated,  \* arg_outdir exists
    srcOpened,   \* the input or its index has been opened
    files,       \* start index -> output file
    faults,      \* number of I/O failures injected so far
    sq,          \* locals of sequential_split
    par,         \* locals of parallel_split
    tasks        \* submitted chunk closures: i -> state

vars == <<args, input, hasIndex, pc, result, dirCreated, srcOpened, files,
          faults, sq, par, tasks>>

N == Len(input)
EmptyFn == [x \in {} |-> x]
Min(a, b) == IF a < b THEN a ELSE b

\* an injected I/O failure is possible while the budget lasts
CanFail == faults < MaxFaults

\* ------------------------------------------------------------ collaborators
\* util::num_of_chunks(nitems, chunk_size)
num_of_chunks(nitems, chunk_size) ==
    IF nitems % chunk_size = 0 THEN nitems \div chunk_size
    ELSE (nitems \div chunk_size) + 1

\* rdr.byte_headers(): the header record, or with no_headers the first row
byte_headers ==
    IF args.flag_no_headers
    THEN (IF input = <<>> THEN NoRow ELSE input[1])
    ELSE HeaderRow

\* ---------------------------------------------------------------- new_writer
\* the file new_writer leaves behind when it returns Ok
NewFileNoHeaderCheck(headers) ==
    [rows |-> <<headers>>, open |-> TRUE, flushed |-> FALSE]

NewFile(headers) ==
    [rows |-> IF ~args.flag_no_headers THEN <<headers>> ELSE <<>>,
     open |-> TRUE, flushed |-> FALSE]

\* File::create truncates, then the header is written
new_writer(fs, headers, start) == (start :> NewFile(headers)) @@ fs

\* new_writer whose header write failed: file created, writer dropped
new_writer_hdr_err(fs, start) ==
    (start :> [rows |-> <<>>, open |-> FALSE, flushed |-> FALSE]) @@ fs

write_bytes(fs, start, row) ==
    [fs EXCEPT ![start].rows = Append(@, row)]

flush(fs, start) == [fs EXCEPT ![start].flushed = TRUE]

\* dropping a writer closes its file
drop(fs, start) ==
    IF start \in DOMAIN fs THEN [fs EXCEPT ![start].open = FALSE] ELSE fs

RECURSIVE dropAll(_, _)
dropAll(fs, ws) ==
    IF ws = <<>> THEN fs ELSE dropAll(drop(fs, Head(ws)), Tail(ws))

\* ---------------------------------------------------------------- Init
SqInit == [rdr |-> 0, i |-> 0, row |-> NoRow, rowOk |-> TRUE,
           wtr |-> <<>>, tmp |-> <<>>]
\* idx: the Indexed handle run passes to parallel_split, idxPos its cursor
ParInit == [nchunks |-> 0, i |-> 0, pool |-> 0, idx |-> FALSE, idxPos |-> 0]

Init ==
    /\ args \in [flag_size : 0..MaxSize, flag_jobs : 0..MaxJobs,
                 flag_no_headers : BOOLEAN]
    /\ input \in Inputs
    /\ hasIndex \in BOOLEAN
    /\ pc = "run"
    /\ result = "none"
    /\ dirCreated = FALSE
    /\ srcOpened = FALSE
    /\ files = EmptyFn
    /\ faults = 0
    /\ sq = SqInit
    /\ par = ParInit
    /\ tasks = EmptyFn

Config == <<args, input, hasIndex>>

\* return Err(..) from the main thread, dropping the writers it holds
ReturnErr ==
    /\ pc' = "done"
    /\ result' = "Err"
    /\ files' = dropAll(files, sq.wtr \o sq.tmp)
    /\ sq' = [sq EXCEPT !.wtr = <<>>, !.tmp = <<>>]

Fail ==
    /\ CanFail
    /\ faults' = faults + 1
    /\ ReturnErr

\* ---------------------------------------------------------------- run
RunCheckSizeLate ==
    /\ pc = "run"
    /\ IF args.flag_size = 0
       THEN /\ dirCreated' = TRUE
            /\ pc' = "done"
            /\ result' = "Err"
       ELSE /\ pc' = "mkdir"
            /\ UNCHANGED <<result, dirCreated>>
    /\ UNCHANGED <<Config, srcOpened, files, faults, sq, par, tasks>>

RunCheckSize ==
    /\ pc = "run"
    /\ IF args.flag_size = 0
       THEN /\ pc' = "done"
            /\ result' = "Err"
       ELSE /\ pc' = "mkdir"
            /\ UNCHANGED result
    /\ UNCHANGED <<Config, dirCreated, srcOpened, files, faults, sq, par, tasks>>

RunMkdir ==
    /\ pc = "mkdir"
    /\ \/ /\ dirCreated' = TRUE
          /\ pc' = "indexed"
          /\ UNCHANGED <<result, files, faults, sq>>
       \/ /\ Fail
          /\ UNCHANGED dirCreated
    /\ UNCHANGED <<Config, srcOpened, par, tasks>>

\* Config::indexed(): Some(handle) when the input has an index, else None
indexed == IF hasIndex THEN "Some" ELSE "None"

\* the match arms swapped: an input without index is sent to parallel_split
RunIndexedSwapped ==
    /\ pc = "indexed"
    /\ \/ /\ indexed = "None"
          /\ srcOpened' = TRUE
          /\ par' = [par EXCEPT !.idx = TRUE]
          /\ pc' = "par_count"
          /\ UNCHANGED <<result, files, faults, sq>>
       \/ /\ indexed = "Some"
          /\ pc' = "seq_reader"
          /\ UNCHANGED <<result, files, faults, sq, srcOpened, par>>
       \/ /\ Fail
          /\ UNCHANGED <<srcOpened, par>>
    /\ UNCHANGED <<Config, dirCreated, tasks>>

\* match try!(args.rconfig().indexed()) { Some(idx) => .., None => .. }
RunIndexed ==
    /\ pc = "indexed"
    /\ \/ /\ indexed = "Some"
          /\ srcOpened' = TRUE
          /\ par' = [par EXCEPT !.idx = TRUE]
          /\ pc' = "par_count"
          /\ UNCHANGED <<result, files, faults, sq>>
       \/ /\ indexed = "None"
          /\ pc' = "seq_reader"
          /\ UNCHANGED <<result, files, faults, sq, srcOpened, par>>
       \/ /\ Fail
          /\ UNCHANGED <<srcOpened, par>>
    /\ UNCHANGED <<Config, dirCreated, tasks>>

\* ---------------------------------------------------------------- sequential_split
SeqReader ==
    /\ pc = "seq_reader"
    /\ \/ /\ srcOpened' = TRUE
          /\ pc' = "seq_headers"
          /\ UNCHANGED <<result, files, faults, sq>>
       \/ /\ Fail
          /\ UNCHANGED srcOpened
    /\ UNCHANGED <<Config, dirCreated, par, tasks>>

SeqHeaders ==
    /\ pc = "seq_headers"
    /\ \/ /\ pc' = "seq_first_writer"
          /\ UNCHANGED <<result, files, faults, sq>>
       \/ Fail
    /\ UNCHANGED <<Config, dirCreated, srcOpened, par, tasks>>

SeqFirstWriter ==
    /\ pc = "seq_first_writer"
    /\ \/ /\ files' = new_writer(files, byte_headers, 0)
          /\ sq' = [sq EXCEPT !.wtr = <<0>>]
          /\ pc' = "seq_next"
          /\ UNCHANGED <<result, faults>>
       \/ Fail
       \/ /\ CanFail /\ ~args.flag_no_headers
          /\ faults' = faults + 1
          /\ files' = new_writer_hdr_err(files, 0)
          /\ pc' = "done"
          /\ result' = "Err"
          /\ UNCHANGED sq
    /\ UNCHANGED <<Config, dirCreated, srcOpened, par, tasks>>

AtBoundaryOffByOne(i) == i > 0 /\ (i + 1) % args.flag_size = 0

AtBoundary(i) == i > 0 /\ i % args.flag_size = 0

\* rdr.byte_records().enumerate().next(): the read happens here, the
\* Result it yields is only unwrapped after the boundary check
SeqNext ==
    /\ pc = "seq_next"
    /\ IF sq.rdr >= N
       THEN /\ pc' = "seq_final_flush"
            /\ UNCHANGED <<sq, faults>>
       ELSE /\ \/ /\ sq' = [sq EXCEPT !.i = sq.rdr, !.rdr = sq.rdr + 1,
                                      !.row = input[sq.rdr + 1], !.rowOk = TRUE]
                     /\ UNCHANGED faults
                  \/ /\ CanFail
                     /\ faults' = faults + 1
                     /\ sq' = [sq EXCEPT !.i = sq.rdr, !.rdr = sq.rdr + 1,
                                         !.row = NoRow, !.rowOk = FALSE]
            /\ pc' = IF AtBoundary(sq.rdr) THEN "seq_flush" ELSE "seq_row"
    /\ UNCHANGED <<Config, result, dirCreated, srcOpened, files, par, tasks>>

\* the flush at the boundary left out: the old writer is replaced unflushed
SeqBoundaryNoFlush ==
    /\ pc = "seq_flush"
    /\ \/ /\ pc' = "seq_new_writer"
          /\ UNCHANGED <<result, faults, sq, files>>
       \/ Fail
    /\ UNCHANGED <<Config, dirCreated, srcOpened, par, tasks>>

\* try!(wtr.flush()) at a chunk boundary
SeqBoundaryFlush ==
    /\ pc = "seq_flush"
    /\ \/ /\ files' = flush(files, sq.wtr[1])
          /\ pc' = "seq_new_writer"
          /\ UNCHANGED <<result, faults, sq>>
       \/ Fail
    /\ UNCHANGED <<Config, dirCreated, srcOpened, par, tasks>>

\* the new file named by the count of records read, not by the index i
SeqBoundaryNewWriterOffByOne ==
    /\ pc = "seq_new_writer"
    /\ \/ /\ files' = new_writer(files, byte_headers, sq.i + 1)
          /\ sq' = [sq EXCEPT !.tmp = <<sq.i + 1>>]
          /\ pc' = "seq_assign"
          /\ UNCHANGED <<result, faults>>
       \/ Fail
       \/ /\ CanFail /\ ~args.flag_no_headers
          /\ faults' = faults + 1
          /\ files' = drop(new_writer_hdr_err(files, sq.i + 1), sq.wtr[1])
          /\ sq' = [sq EXCEPT !.wtr = <<>>]
          /\ pc' = "done"
          /\ result' = "Err"
    /\ UNCHANGED <<Config, dirCreated, srcOpened, par, tasks>>

\* wtr = try!(self.new_writer(headers[], i)), up to the assignment
SeqBoundaryNewWriter ==
    /\ pc = "seq_new_writer"
    /\ \/ /\ files' = new_writer(files, byte_headers, sq.i)
          /\ sq' = [sq EXCEPT !.tmp = <<sq.i>>]
          /\ pc' = "seq_assign"
          /\ UNCHANGED <<result, faults>>
       \/ Fail
       \/ /\ CanFail /\ ~args.flag_no_headers
          /\ faults' = faults + 1
          /\ files' = drop(new_writer_hdr_err(files, sq.i), sq.wtr[1])
          /\ sq' = [sq EXCEPT !.wtr = <<>>]
          /\ pc' = "done"
          /\ result' = "Err"
    /\ UNCHANGED <<Config, dirCreated, srcOpened, par, tasks>>

\* wtr = <new writer>: the old writer is dropped by the assignment
SeqAssign ==
    /\ pc = "seq_assign"
    /\ files' = drop(files, sq.wtr[1])
    /\ sq' = [sq EXCEPT !.wtr = sq.tmp, !.tmp = <<>>]
    /\ pc' = "seq_row"
    /\ UNCHANGED <<Config, result, dirCreated, srcOpened, faults, par, tasks>>

\* let row = try!(row)
SeqTryRow ==
    /\ pc = "seq_row"
    /\ IF sq.rowOk
       THEN /\ pc' = "seq_write"
            /\ UNCHANGED <<result, files, sq>>
       ELSE ReturnErr
    /\ UNCHANGED <<Config, dirCreated, srcOpened, faults, par, tasks>>

SeqWrite ==
    /\ pc = "seq_write"
    /\ \/ /\ files' = write_bytes(files, sq.wtr[1], sq.row)
          /\ sq' = [sq EXCEPT !.row = NoRow]
          /\ pc' = "seq_next"
          /\ UNCHANGED <<result, faults>>
       \/ Fail
    /\ UNCHANGED <<Config, dirCreated, srcOpened, par, tasks>>

\* the last writer dropped without the final flush
SeqFinalNoFlush ==
    /\ pc = "seq_final_flush"
    /\ \/ /\ files' = drop(files, sq.wtr[1])
          /\ sq' = [sq EXCEPT !.wtr = <<>>]
          /\ pc' = "done"
          /\ result' = "Ok"
          /\ UNCHANGED faults
       \/ Fail
    /\ UNCHANGED <<Config, dirCreated, srcOpened, par, tasks>>

\* try!(wtr.flush()); Ok(()) after the loop
SeqFinalFlush ==
    /\ pc = "seq_final_flush"
    /\ \/ /\ files' = drop(flush(files, sq.wtr[1]), sq.wtr[1])
          /\ sq' = [sq EXCEPT !.wtr = <<>>]
          /\ pc' = "done"
          /\ result' = "Ok"
          /\ UNCHANGED faults
       \/ Fail
    /\ UNCHANGED <<Config, dirCreated, srcOpened, par, tasks>>

\* ---------------------------------------------------------------- parallel_split
ParCount ==
    /\ pc = "par_count"
    /\ par' = [par EXCEPT !.nchunks = num_of_chunks(N, args.flag_size)]
    /\ pc' = "par_pool"
    /\ UNCHANGED <<Config, result, dirCreated, srcOpened, files, faults, sq, tasks>>

\* TaskPool::new(flag_jobs) asserts that it is given at least one thread
ParPool ==
    /\ pc = "par_pool"
    /\ IF args.flag_jobs >= 1
       THEN /\ par' = [par EXCEPT !.pool = args.flag_jobs]
            /\ pc' = "par_loop"
            /\ UNCHANGED result
       ELSE /\ pc' = "done"
            /\ result' = "Panic"
            /\ par' = [par EXCEPT !.idx = FALSE]
    /\ UNCHANGED <<Config, dirCreated, srcOpened, files, faults, sq, tasks>>

QueuedTask == [pc |-> "queued", pos |-> 0, taken |-> 0, row |-> NoRow]

\* pool.execute(proc() {...}) for the loop variable i
ParSubmit ==
    /\ pc = "par_loop"
    /\ par.i < par.nchunks
    /\ tasks' = (par.i :> QueuedTask) @@ tasks
    /\ par' = [par EXCEPT !.i = par.i + 1]
    /\ UNCHANGED <<Config, pc, result, dirCreated, srcOpened, files, faults, sq>>

\* the loop is over: Ok(()) is returned, the pool handle is dropped
ParReturn ==
    /\ pc = "par_loop"
    /\ par.i >= par.nchunks
    /\ pc' = "done"
    /\ result' = "Ok"
    /\ par' = [par EXCEPT !.idx = FALSE]
    /\ UNCHANGED <<Config, dirCreated, srcOpened, files, faults, sq, tasks>>

\* ---------------------------------------------------------------- chunk task
Finished(t) == tasks[t].pc \in {"done", "panicked"}
Running == {t \in DOMAIN tasks : tasks[t].pc # "queued" /\ ~Finished(t)}

TaskStartIndexUnscaled(i) == i

\* the loop variable left out of the file name
TaskStartIndexConst(i) == 0 * args.flag_size

\* start index passed to new_writer by task i
TaskStartIndex(i) == i * args.flag_size

TaskSeekPosShared(i) == par.i * args.flag_size

\* record position task i seeks to
TaskSeekPos(i) == i * args.flag_size

\* unwrap() on an Err: the closure unwinds, dropping its writer
TaskPanic(t) ==
    /\ CanFail
    /\ faults' = faults + 1
    /\ tasks' = [tasks EXCEPT ![t] = [pc |-> "panicked", pos |-> @.pos,
                                      taken |-> @.taken, row |-> NoRow]]

\* workers that stop taking closures once the pool handle is dropped
TaskStartWhilePoolAlive(t) ==
    /\ pc = "par_loop"
    /\ tasks[t].pc = "queued"
    /\ \A u \in DOMAIN tasks : u < t => tasks[u].pc # "queued"
    /\ Cardinality(Running) < par.pool
    /\ tasks' = [tasks EXCEPT ![t].pc = "indexed"]
    /\ UNCHANGED <<Config, pc, result, dirCreated, srcOpened, files, faults, sq, par>>

\* a free worker takes the oldest queued closure off the channel
TaskStart(t) ==
    /\ tasks[t].pc = "queued"
    /\ \A u \in DOMAIN tasks : u < t => tasks[u].pc # "queued"
    /\ Cardinality(Running) < par.pool
    /\ tasks' = [tasks EXCEPT ![t].pc = "indexed"]
    /\ UNCHANGED <<Config, pc, result, dirCreated, srcOpened, files, faults, sq, par>>

\* conf.indexed().unwrap().unwrap(): the task's own reader, at position 0
TaskIndexed(t) ==
    /\ tasks[t].pc = "indexed"
    /\ \/ /\ tasks' = [tasks EXCEPT ![t].pc = "headers", ![t].pos = 0]
          /\ UNCHANGED faults
       \/ TaskPanic(t)
    /\ UNCHANGED <<Config, pc, result, dirCreated, srcOpened, files, sq, par>>

TaskHeaders(t) ==
    /\ tasks[t].pc = "headers"
    /\ \/ /\ tasks' = [tasks EXCEPT ![t].pc = "new_writer"]
          /\ UNCHANGED faults
       \/ TaskPanic(t)
    /\ UNCHANGED <<Config, pc, result, dirCreated, srcOpened, files, sq, par>>

TaskNewWriter(t) ==
    /\ tasks[t].pc = "new_writer"
    /\ \/ /\ files' = new_writer(files, byte_headers, TaskStartIndex(t))
          /\ tasks' = [tasks EXCEPT ![t].pc = "seek"]
          /\ UNCHANGED faults
       \/ /\ TaskPanic(t)
          /\ UNCHANGED files
       \/ /\ ~args.flag_no_headers
          /\ TaskPanic(t)
          /\ files' = new_writer_hdr_err(files, TaskStartIndex(t))
    /\ UNCHANGED <<Config, pc, result, dirCreated, srcOpened, sq, par>>

\* the seek done on the handle parallel_split was given, shared by the tasks
TaskSeekSharedCursor(t) ==
    /\ tasks[t].pc = "seek"
    /\ \/ /\ tasks' = [tasks EXCEPT ![t].pc = "read", ![t].pos = TaskSeekPos(t)]
          /\ par' = [par EXCEPT !.idxPos = TaskSeekPos(t)]
          /\ UNCHANGED <<faults, files>>
       \/ /\ TaskPanic(t)
          /\ files' = drop(files, TaskStartIndex(t))
          /\ UNCHANGED par
    /\ UNCHANGED <<Config, pc, result, dirCreated, srcOpened, sq>>

\* idx.seek((i * args.flag_size) as u64).unwrap() on the task's own reader
TaskSeek(t) ==
    /\ tasks[t].pc = "seek"
    /\ \/ /\ tasks' = [tasks EXCEPT ![t].pc = "read", ![t].pos = TaskSeekPos(t)]
          /\ UNCHANGED <<faults, files>>
       \/ /\ TaskPanic(t)
          /\ files' = drop(files, TaskStartIndex(t))
    /\ UNCHANGED <<Config, pc, result, dirCreated, srcOpened, sq, par>>

\* take(flag_size + 1): one record too many per chunk
TaskReadTakeOneMore(t) ==
    /\ tasks[t].pc = "read"
    /\ IF tasks[t].taken >= args.flag_size + 1 \/ tasks[t].pos >= N
       THEN /\ tasks' = [tasks EXCEPT ![t].pc = "flush"]
            /\ UNCHANGED <<faults, files>>
       ELSE \/ /\ tasks' = [tasks EXCEPT ![t].pc = "write",
                                         ![t].row = input[tasks[t].pos + 1],
                                         ![t].pos = @ + 1,
                                         ![t].taken = @ + 1]
               /\ UNCHANGED <<faults, files>>
            \/ /\ TaskPanic(t)
               /\ files' = drop(files, TaskStartIndex(t))
    /\ UNCHANGED <<Config, pc, result, dirCreated, srcOpened, sq, par>>

\* idx.csv().byte_records().take(flag_size).next()
TaskRead(t) ==
    /\ tasks[t].pc = "read"
    /\ IF tasks[t].taken >= args.flag_size \/ tasks[t].pos >= N
       THEN /\ tasks' = [tasks EXCEPT ![t].pc = "flush"]
            /\ UNCHANGED <<faults, files>>
       ELSE \/ /\ tasks' = [tasks EXCEPT ![t].pc = "write",
                                         ![t].row = input[tasks[t].pos + 1],
                                         ![t].pos = @ + 1,
                                         ![t].taken = @ + 1]
               /\ UNCHANGED <<faults, files>>
            \/ /\ TaskPanic(t)
               /\ files' = drop(files, TaskStartIndex(t))
    /\ UNCHANGED <<Config, pc, result, dirCreated, srcOpened, sq, par>>

TaskWrite(t) ==
    /\ tasks[t].pc = "write"
    /\ \/ /\ files' = write_bytes(files, TaskStartIndex(t), tasks[t].row)
          /\ tasks' = [tasks EXCEPT ![t].pc = "read", ![t].row = NoRow]
          /\ UNCHANGED faults
       \/ /\ TaskPanic(t)
          /\ files' = drop(files, TaskStartIndex(t))
    /\ UNCHANGED <<Config, pc, result, dirCreated, srcOpened, sq, par>>

\* wtr.flush().unwrap(), then the closure ends and drops reader and writer
TaskFlush(t) ==
    /\ tasks[t].pc = "flush"
    /\ \/ /\ files' = drop(flush(files, TaskStartIndex(t)), TaskStartIndex(t))
          /\ tasks' = [tasks EXCEPT ![t].pc = "done"]
          /\ UNCHANGED faults
       \/ /\ TaskPanic(t)
          /\ files' = drop(files, TaskStartIndex(t))
    /\ UNCHANGED <<Config, pc, result, dirCreated, srcOpened, sq, par>>

\* ---------------------------------------------------------------- specification
Next ==
    \/ RunCheckSize
    \/ RunMkdir
    \/ RunIndexed
    \/ SeqReader
    \/ SeqHeaders
    \/ SeqFirstWriter
    \/ SeqNext
    \/ SeqBoundaryFlush
    \/ SeqBoundaryNewWriter
    \/ SeqAssign
    \/ SeqTryRow
    \/ SeqWrite
    \/ SeqFinalFlush
    \/ ParCount
    \/ ParPool
    \/ ParSubmit
    \/ ParReturn
    \/ \E t \in DOMAIN tasks : TaskStart(t)
    \/ \E t \in DOMAIN tasks : TaskIndexed(t)
    \/ \E t \in DOMAIN tasks : TaskHeaders(t)
    \/ \E t \in DOMAIN tasks : TaskNewWriter(t)
    \/ \E t \in DOMAIN tasks : TaskSeek(t)
    \/ \E t \in DOMAIN tasks : TaskRead(t)
    \/ \E t \in DOMAIN tasks : TaskWrite(t)
    \/ \E t \in DOMAIN tasks : TaskFlush(t)

Spec == Init /\ [][Next]_vars

\* ---------------------------------------------------------------- sequential runs
\* runs on an input without index: the single thread of sequential_split
\* takes its next step whenever it has one
InitSeq == Init /\ ~hasIndex

NextSeq ==
    \/ RunCheckSize
    \/ RunMkdir
    \/ RunIndexed
    \/ SeqReader
    \/ SeqHeaders
    \/ SeqFirstWriter
    \/ SeqNext
    \/ SeqBoundaryFlush
    \/ SeqBoundaryNewWriter
    \/ SeqAssign
    \/ SeqTryRow
    \/ SeqWrite
    \/ SeqFinalFlush

SpecSeqFair == InitSeq /\ [][NextSeq]_vars /\ WF_vars(NextSeq)

\* ---------------------------------------------------------------- parallel runs
\* runs on an indexed input in which no I/O operation fails: the main thread
\* and the pool's workers are OS threads, each scheduled again and again
\* while it has a step to take
InitPar == Init /\ hasIndex

NoFault == faults' = faults

NextPar ==
    \/ RunCheckSize /\ NoFault
    \/ RunMkdir /\ NoFault
    \/ RunIndexed /\ NoFault
    \/ ParCount /\ NoFault
    \/ ParPool /\ NoFault
    \/ ParSubmit /\ NoFault
    \/ ParReturn /\ NoFault
    \/ \E t \in DOMAIN tasks : TaskStart(t) /\ NoFault
    \/ \E t \in DOMAIN tasks : TaskIndexed(t) /\ NoFault
    \/ \E t \in DOMAIN tasks : TaskHeaders(t) /\ NoFault
    \/ \E t \in DOMAIN tasks : TaskNewWriter(t) /\ NoFault
    \/ \E t \in DOMAIN tasks : TaskSeek(t) /\ NoFault
    \/ \E t \in DOMAIN tasks : TaskRead(t) /\ NoFault
    \/ \E t \in DOMAIN tasks : TaskWrite(t) /\ NoFault
    \/ \E t \in DOMAIN tasks : TaskFlush(t) /\ NoFault

SpecParFair == InitPar /\ [][NextPar]_vars /\ WF_vars(NextPar)

TypeOK ==
    /\ args.flag_size \in 0..MaxSize
    /\ input \in Inputs
    /\ result \in {"none", "Ok", "Err", "Panic"}
    /\ faults \in 0..MaxFaults
    /\ \A s \in DOMAIN files : files[s].open \in BOOLEAN

\* ---------------------------------------------------------------- sequential_split as a function
\* the body of the for loop of sequential_split, folded over the records
RECURSIVE SeqLoop(_, _, _)
SeqLoop(fs, wtr, i) ==
    IF i >= N
    THEN drop(flush(fs, wtr), wtr)
    ELSE LET fs1 == IF AtBoundary(i)
                    THEN drop(new_writer(flush(fs, wtr), byte_headers, i), wtr)
                    ELSE fs
             w1 == IF AtBoundary(i) THEN i ELSE wtr
         IN SeqLoop(write_bytes(fs1, w1, input[i + 1]), w1, i + 1)

\* the files an error-free sequential_split leaves behind
sequential_split_files == SeqLoop(new_writer(EmptyFn, byte_headers, 0), 0, 0)

\* the stepwise model of sequential_split agrees with its functional form
SeqOperatorAgrees ==
    (~hasIndex /\ result = "Ok") => files = sequential_split_files

\* ---------------------------------------------------------------- properties
S == args.flag_size
Ceil(n, d) == (n + d - 1) \div d
HdrLen == IF args.flag_no_headers THEN 0 ELSE 1
DataRows(s) == SubSeq(files[s].rows, HdrLen + 1, Len(files[s].rows))
Slice(s, k) == SubSeq(input, s + 1, s + k)
AllTasksDone ==
    /\ DOMAIN tasks = 0..(par.nchunks - 1)
    /\ \A t \in DOMAIN tasks : tasks[t].pc = "done"
SplitFinished == result = "Ok" /\ (hasIndex => AllTasksDone)

\* C1: once the split has finished without error (parallel: every chunk task
\* done), for every chunk i with i*S < N the file <i*S>.csv holds exactly
\* min(S, N - i*S) data records, the p-th being input record i*S + p.
C1_ChunkContents ==
    SplitFinished =>
        \A i \in 0..N :
            i * S < N =>
                /\ i * S \in DOMAIN files
                /\ DataRows(i * S) = Slice(i * S, Min(S, N - i * S))

C1_Witness ==
    /\ SplitFinished /\ hasIndex
    /\ N = 3 /\ S = 2
    /\ Len(DataRows(2)) = 1

\* C2: in sequential mode the number of output files created equals
\* ceil(N/S); with zero data records no output file is created.
C2_FileCount ==
    (~hasIndex /\ result = "Ok") => Cardinality(DOMAIN files) = Ceil(N, S)

Created(t) == tasks[t].pc \in {"seek", "read", "write", "flush", "done"}
NotYetCreated(t) == tasks[t].pc \in {"queued", "indexed", "headers", "new_writer"}

\* C3: parallel_split submits exactly ceil(count/size) tasks; task i creates
\* the file with start index i*size and no other, so the files created are
\* those of the tasks that got past new_writer; count = 0 submits no task
\* and creates no file.
C3_ParallelTasks ==
    hasIndex =>
        /\ result = "Ok" => DOMAIN tasks = 0..(Ceil(N, S) - 1)
        /\ DOMAIN files \subseteq {t * S : t \in DOMAIN tasks}
        /\ \A t \in DOMAIN tasks :
              /\ Created(t) => t * S \in DOMAIN files
              /\ NotYetCreated(t) => t * S \notin DOMAIN files
        /\ AllTasksDone /\ result = "Ok" =>
              DOMAIN files = {t * S : t \in 0..(Ceil(N, S) - 1)}
        /\ N = 0 => tasks = EmptyFn /\ files = EmptyFn

C3_Witness ==
    /\ hasIndex /\ result = "Ok" /\ AllTasksDone
    /\ S = 2 /\ DOMAIN files = {0, 2}

\* C4: when run has returned success in parallel mode, every submitted chunk
\* task has finished and its file is written and flushed.
C4_OkImpliesTasksFinished ==
    (hasIndex /\ result = "Ok") =>
        \A t \in 0..(par.nchunks - 1) :
            /\ t \in DOMAIN tasks
            /\ tasks[t].pc = "done"
            /\ t * S \in DOMAIN files
            /\ files[t * S].flushed

\* C5: run never returns success when a chunk task failed.
C5_TaskFailureReported ==
    (\E t \in DOMAIN tasks : tasks[t].pc = "panicked") => result # "Ok"

\* C6: for the same input and size, the parallel split (all tasks complete)
\* leaves the same file names with the same contents as the sequential split.
C6_ParallelEqualsSequential ==
    (hasIndex /\ result = "Ok" /\ AllTasksDone) => files = sequential_split_files

ChunkFile(s) ==
    [rows |-> (IF args.flag_no_headers THEN <<>> ELSE <<HeaderRow>>)
                  \o Slice(s, Min(S, N - s)),
     open |-> FALSE, flushed |-> TRUE]
ExpectedFiles == [s \in {t * S : t \in 0..(Ceil(N, S) - 1)} |-> ChunkFile(s)]

\* C7: in parallel mode the final files and their contents, once all tasks
\* completed without error, are a function of the input and the size only:
\* the same for every jobs >= 1 and every interleaving of the tasks.
C7_Deterministic ==
    (hasIndex /\ result = "Ok" /\ AllTasksDone) => files = ExpectedFiles

C7_Witness ==
    /\ hasIndex /\ result = "Ok" /\ AllTasksDone
    /\ args.flag_jobs = 2 /\ par.nchunks = 3
    /\ files = ExpectedFiles

\* C8: with headers enabled every output file begins with exactly one copy of
\* the header record, written before any data record (a file is empty only
\* when the header write itself failed); with --no-headers no file receives
\* a header record: its rows are data records of its chunk only.
C8_HeaderFirst ==
    \A s \in DOMAIN files :
        IF args.flag_no_headers
        THEN \E k \in 0..(N - s) : files[s].rows = Slice(s, k)
        ELSE \/ /\ files[s].rows = <<>>
                /\ ~files[s].open
                /\ ~files[s].flushed
             \/ \E k \in 0..(N - s) :
                    files[s].rows = <<HeaderRow>> \o Slice(s, k)

C8_Witness ==
    /\ ~args.flag_no_headers
    /\ \E s \in DOMAIN files :
          /\ s > 0
          /\ Len(files[s].rows) = 2
          /\ files[s].rows[1] = HeaderRow
          /\ files[s].rows[2] = "a"

\* C9: with chunk size 0 run fails before the output directory is created,
\* before the input or index is opened and before any file is created.
C9_SizeZeroRejected ==
    S = 0 =>
        /\ ~dirCreated
        /\ ~srcOpened
        /\ files = EmptyFn
        /\ tasks = EmptyFn
        /\ pc \in {"run", "done"}
        /\ pc = "done" => result = "Err"

C9_Witness == S = 0 /\ pc = "done" /\ result = "Err"

\* C10: jobs = 0 is rejected before any I/O: run aborts with an error before
\* the output directory is created and before the index or input is opened.
C10_ZeroJobsRejected ==
    args.flag_jobs = 0 =>
        /\ ~dirCreated
        /\ ~srcOpened
        /\ result # "Ok"

SeqPcs == {"seq_reader", "seq_headers", "seq_first_writer", "seq_next",
           "seq_flush", "seq_new_writer", "seq_assign", "seq_row",
           "seq_write", "seq_final_flush"}
ParPcs == {"par_count", "par_pool", "par_loop"}

\* C11: run enters parallel_split only when an index exists and
\* sequential_split exactly when none exists; a missing index is not an
\* error (without I/O failure the run goes on to sequential_split and never
\* ends in Err), and the sequential path opens no index handle and no task.
C11_ModeSelection ==
    /\ (pc \in ParPcs \/ tasks # EmptyFn \/ par # ParInit) => hasIndex
    /\ (pc \in SeqPcs \/ sq # SqInit) => ~hasIndex
    /\ ~hasIndex => par = ParInit /\ tasks = EmptyFn
    /\ (~hasIndex /\ faults = 0 /\ S > 0) =>
          /\ result \in {"none", "Ok"}
          /\ pc \in {"run", "mkdir", "indexed", "done"} \cup SeqPcs

C11_Witness ==
    /\ ~hasIndex /\ pc = "seq_write" /\ sq.rdr = 2
    /\ par = ParInit /\ srcOpened

\* C12: in every reachable state of either mode (mid-stream, tasks
\* unfinished, after an error) each file holds a gap-free prefix of its own
\* chunk: the p-th data record of the file with start index s is input record
\* s + p, the file starts at a multiple of the chunk size and holds at most
\* one chunk, so the position ranges of the files are pairwise disjoint and
\* no input position is present twice.
C12_DisjointPrefixes ==
    /\ \A s \in DOMAIN files :
          /\ s % S = 0
          /\ Len(DataRows(s)) <= S
          /\ s + Len(DataRows(s)) <= N
          /\ DataRows(s) = Slice(s, Len(DataRows(s)))
    /\ \A s1, s2 \in DOMAIN files :
          s1 < s2 => s1 + Len(DataRows(s1)) <= s2

C12_Witness ==
    /\ hasIndex /\ S = 2
    /\ \E t, u \in DOMAIN tasks :
          /\ t # u
          /\ tasks[t].pc = "read" /\ tasks[u].pc = "write"
          /\ Len(DataRows(TaskStartIndex(t))) = 1
          /\ Len(DataRows(TaskStartIndex(u))) = 0

\* C13: in sequential mode, once a read, write or flush has failed, no
\* further output file is created and no further record is written; the
\* files written before the failure keep their content.
C13_AbortImmediately ==
    [][(~hasIndex /\ faults > 0) =>
          /\ DOMAIN files' = DOMAIN files
          /\ \A s \in DOMAIN files : files'[s].rows = files[s].rows]_vars

OpenFiles == {s \in DOMAIN files : files[s].open}

\* C14 as stated: in sequential mode the old file is closed before the new one
\* is opened, so at no point are two output files open at once.
C14_OneOpenFile ==
    ~hasIndex => Cardinality(OpenFiles) <= 1

\* C14 amended: in sequential mode the old file is flushed before the new one
\* is opened and is closed right after, before any record is written to the
\* new file: two files are open only between new_writer and the assignment,
\* the old one flushed and the new one without data; and between records
\* every record read so far is in exactly one file, the one named by the
\* start index of its own chunk.
C14_FlushBeforeOpen ==
    ~hasIndex =>
        /\ Cardinality(OpenFiles) <= 2
        /\ Cardinality({s \in OpenFiles : ~files[s].flushed}) <= 1
        /\ Cardinality(OpenFiles) = 2 =>
              /\ pc = "seq_assign"
              /\ OpenFiles = {sq.wtr[1], sq.tmp[1]}
              /\ files[sq.wtr[1]].flushed
              /\ DataRows(sq.tmp[1]) = <<>>
        /\ pc = "seq_next" =>
              /\ DOMAIN files = {0} \cup {s \in 0..sq.rdr : s < sq.rdr /\ s % S = 0}
              /\ \A s \in DOMAIN files :
                    DataRows(s) = Slice(s, Min(S, sq.rdr - s))
              /\ OpenFiles = {sq.wtr[1]}
              /\ \A s \in DOMAIN files : s # sq.wtr[1] => files[s].flushed

C14_Witness ==
    /\ ~hasIndex /\ pc = "seq_assign"
    /\ sq.wtr = <<0>> /\ sq.tmp = <<2>>
    /\ OpenFiles = {0, 2}
    /\ files[0].flushed

\* the task that owns the file with start index s
OwnerOf(s) == CHOOSE t \in DOMAIN tasks : TaskStartIndex(t) = s

\* C15: every output file is written by exactly one writer: the start
\* indices of the chunk tasks are pairwise distinct and each file of a
\* parallel run holds exactly the records its own task has written (all it
\* has read, less the one it is about to write or failed to write); in
\* either mode a flushed file keeps its rows, stays flushed and is never
\* opened again.
C15_SingleWriter ==
    /\ [](hasIndex =>
            /\ \A t, u \in DOMAIN tasks :
                  t # u => TaskStartIndex(t) # TaskStartIndex(u)
            /\ \A s \in DOMAIN files :
                  /\ \E t \in DOMAIN tasks : TaskStartIndex(t) = s
                  /\ Len(DataRows(s)) <= tasks[OwnerOf(s)].taken
                  /\ tasks[OwnerOf(s)].pc \in {"read", "flush", "done"} =>
                        Len(DataRows(s)) = tasks[OwnerOf(s)].taken
                  /\ tasks[OwnerOf(s)].pc = "write" =>
                        Len(DataRows(s)) = tasks[OwnerOf(s)].taken - 1)
    /\ [][\A s \in DOMAIN files :
            files[s].flushed =>
                /\ s \in DOMAIN files'
                /\ files'[s].rows = files[s].rows
                /\ files'[s].flushed
                /\ files'[s].open => files[s].open]_vars

C15_Witness ==
    /\ hasIndex
    /\ \E s, u \in DOMAIN files :
          /\ files[s].flushed /\ ~files[s].open
          /\ files[u].open /\ Len(DataRows(u)) >= 1

\* C16: each chunk task seeks and reads only its own reader: a step that
\* moves one task's read position changes no other task and not the handle
\* given to parallel_split, whose cursor stays where count() left it; the
\* configuration and the input are never modified.
C16_OwnCursor ==
    /\ [](par.idxPos = 0)
    /\ [][/\ args' = args
          /\ input' = input
          /\ \A t \in DOMAIN tasks :
                tasks'[t].pos # tasks[t].pos =>
                    /\ \A u \in DOMAIN tasks \ {t} : tasks'[u] = tasks[u]
                    /\ par' = par]_vars

C16_Witness ==
    /\ par.idxPos = 0
    /\ \E t, u \in DOMAIN tasks :
          /\ t # u
          /\ tasks[t].pc = "write" /\ tasks[u].pc = "read"
          /\ tasks[t].pos > 0 /\ tasks[u].pos > tasks[t].pos

\* C17: in sequential mode sequential_split terminates, and when no read or
\* write failed it terminates with success and every writer it opened has
\* been flushed and closed: the earlier ones at their chunk boundary, the
\* last one on stream exhaustion.
C17_SeqTerminatesFlushed ==
    (~hasIndex /\ S > 0) =>
        <>(/\ pc = "done"
           /\ faults = 0 =>
                 /\ result = "Ok"
                 /\ DOMAIN files # {}
                 /\ \A s \in DOMAIN files : files[s].flushed /\ ~files[s].open)

C17_Witness ==
    /\ ~hasIndex /\ pc = "done" /\ result = "Ok"
    /\ DOMAIN files = {0, 1, 2}
    /\ \A s \in DOMAIN files : files[s].flushed /\ ~files[s].open

\* C18: in parallel mode with jobs >= 1 and no I/O error, under fair
\* scheduling every submitted chunk task is eventually run to completion,
\* also when there are more chunks than workers and after parallel_split has
\* returned: eventually all ceil(count/size) tasks are done and every chunk
\* file is complete.
C18_AllTasksComplete ==
    (hasIndex /\ S > 0 /\ args.flag_jobs >= 1) =>
        <>(/\ result = "Ok"
           /\ DOMAIN tasks = 0..(Ceil(N, S) - 1)
           /\ \A t \in DOMAIN tasks : tasks[t].pc = "done"
           /\ files = ExpectedFiles)

C18_Witness ==
    /\ hasIndex /\ faults = 0 /\ result = "Ok"
    /\ args.flag_jobs = 1 /\ par.nchunks = 3
    /\ \A t \in DOMAIN tasks : tasks[t].pc = "done"
    /\ files = ExpectedFiles

\* C19: in sequential mode without errors a file with start index s > 0 is
\* created only when input record s exists: the start indices of the files
\* are 0 and multiples of the chunk size below N, and on success they are
\* exactly 0 and all those multiples, every file but 0.csv holding at least
\* one data record.
C19_FilesOnlyForRecords ==
    (~hasIndex /\ faults = 0) =>
        /\ \A s \in DOMAIN files : s = 0 \/ (s % S = 0 /\ s < N)
        /\ result = "Ok" =>
              /\ DOMAIN files = {0} \cup {s \in 0..N : s < N /\ s % S = 0}
              /\ \A s \in DOMAIN files : s > 0 => Len(DataRows(s)) >= 1

C19_Witness ==
    /\ ~hasIndex /\ faults = 0 /\ result = "Ok"
    /\ N = 3 /\ DOMAIN files = {0, 2}
    /\ Len(DataRows(2)) = 1

====
